---- MODULE Spec2Model ----
(***************************************************************************)
(* Model of two units of the opstrace repository:                          *)
(*                                                                         *)
(*  - PrometheusResources (controller/.../tenants/prometheus.ts), which    *)
(*    builds the six Kubernetes resources of a tenant's Prometheus.  Each  *)
(*    invocation is a record of the function's locals plus a program       *)
(*    counter; the statements of the function are the actions, so that     *)
(*    several invocations can be interleaved step by step.                 *)
(*                                                                         *)
(*  - SyntheticMonitoringForm (app/.../syntheticMonitoring/Form.tsx), the  *)
(*    one-field form whose submit handler calls handleCreate.              *)
(***************************************************************************)
EXTENDS Integers, Sequences, FiniteSets, TLC

VARIABLES
    calls,              \* invocation id -> locals of one PrometheusResources call
    nameInput,          \* Form.tsx: current value of the "name" field
    isValid,            \* Form.tsx: formState.isValid
    handleCreateCalls,  \* Form.tsx: argument lists handleCreate was called with
    submitted           \* Form.tsx: field value at each submit event (history)

vars == <<calls, nameInput, isValid, handleCreateCalls, submitted>>
formVars == <<nameInput, isValid, handleCreateCalls, submitted>>

---------------------------------------------------------------------------
(* Bounds of the model *)

\* Node counts range over 0..MaxNodeCount (both sides of the threshold 6).
MaxNodeCount == 7

\* At most this many submit events are recorded by the form model.
MaxSubmits == 3

---------------------------------------------------------------------------
(* Values *)

\* JavaScript's undefined: an unset optional property, an unset variable.
Undefined == "undefined"

\* The value of a local that has not been assigned yet / nothing returned.
NoValue == "no-value"

\* The empty object literal {}.
EmptyObject == [k \in {} |-> ""]

\* Tenant.type is a string; the code only ever compares it with "SYSTEM".
\* "USER" is the standard tenant; "OTHER" stands for any third value.
TenantTypes == {"SYSTEM", "USER", "OTHER"}

TenantNames == {"system", "acme"}

Tenants == [name : TenantNames, type : TenantTypes]

Domains == {"prod.opstrace.io", Undefined}

States == [nodeCount : 0..MaxNodeCount, domain : Domains]

\* The opaque cluster-API handle, passed through to every resource.
KubeConfigs == {"kubeConfig"}

Calls == {"call1", "call2"}

---------------------------------------------------------------------------
(* Helpers imported by prometheus.ts *)

\* helpers.getNodeCount(state)
getNodeCount(state) == state.nodeCount

\* helpers.getTenantNamespace(tenant)
getTenantNamespace(tenant) == tenant.name \o "-tenant"

\* helpers.getPrometheusName(tenant)
getPrometheusName(tenant) == tenant.name \o "-prometheus"

\* helpers.getDomain(state) fails when the cluster domain is not defined.
getDomainThrows(state) == state.domain = Undefined

getDomain(state) == state.domain

\* One entry of the table handed to select(): {"<=": bound, choose: value}.
\* inf marks the entry whose bound is Infinity.
Choice(bound, isInf, value) == [le |-> bound, inf |-> isInf, choose |-> value]

Satisfies(target, choice) == choice.inf \/ target <= choice.le

\* utils.select(target, choices): the value of the first entry, in table
\* order, whose bound is at least target; NoValue when there is none.
select(target, choices) ==
    LET hits == {i \in 1..Len(choices) : Satisfies(target, choices[i])}
    IN  IF hits = {} THEN NoValue
        ELSE choices[CHOOSE i \in hits : \A j \in hits : i <= j].choose

\* kubernetes.withPodAntiAffinityRequired(labels)
withPodAntiAffinityRequired(labels) ==
    [podAntiAffinity |->
        [requiredDuringSchedulingIgnoredDuringExecution |->
            <<[labelSelector |-> [matchLabels |-> labels]]>>]]

\* controller-config DockerImages.prometheus, as its two ":"-separated parts.
DockerImagesPrometheus == <<"prom/prometheus", "v2.25.0">>

\* new Service(...), new Role(...), ...: a resource and the handle it is
\* constructed with.
K8sResource(resource, kubeConfig) ==
    [resource |-> resource, kubeConfig |-> kubeConfig]

\* ResourceCollection.add(resource)
add(collection, resource) == Append(collection, resource)

---------------------------------------------------------------------------
(* PrometheusResources, statement by statement *)

\* An invocation that has not executed its first statement.
NewCall(state, kubeConfig, tenant) ==
    [pc |-> "start",
     state |-> state, kubeConfig |-> kubeConfig, tenant |-> tenant,
     collection |-> NoValue, namespace |-> NoValue, name |-> NoValue,
     config |-> NoValue,
     serviceMonitorSelector |-> NoValue,
     ruleNamespaceSelector |-> NoValue,
     serviceMonitorNamespaceSelector |-> NoValue,
     promSecrets |-> NoValue, promBearerTokenFile |-> NoValue,
     remoteWrite |-> NoValue, remoteRead |-> NoValue,
     returned |-> NoValue]

\* ShardTable with its two entries in the opposite order.
ShardTable_swapped ==
    <<Choice(0, TRUE, 3), Choice(6, FALSE, 2)>>

\* The table of lines 49-55.
ShardTable ==
    <<Choice(6, FALSE, 2), Choice(0, TRUE, 3)>>

\* Lines 48-59.
Config(state) ==
    [shards |-> select(getNodeCount(state), ShardTable),
     replicas |-> 1,
     diskSize |-> "10Gi",
     resources |-> EmptyObject]

\* Lines 44-86: the locals and their initial values.
BeginStep(call) ==
    LET tenant == call.tenant
    IN  [call EXCEPT
            !.pc = "dispatch",
            !.collection = <<>>,
            !.namespace = getTenantNamespace(tenant),
            !.name = getPrometheusName(tenant),
            !.config = Config(call.state),
            !.serviceMonitorSelector =
                [matchLabels |-> [tenant |-> tenant.name]],
            !.ruleNamespaceSelector = EmptyObject,
            !.serviceMonitorNamespaceSelector = EmptyObject,
            !.promSecrets = <<>>,
            !.promBearerTokenFile = Undefined,
            !.remoteWrite =
                [url |-> "http://cortex-api." \o getTenantNamespace(tenant)
                            \o ".svc.cluster.local:8080/api/v1/push",
                 bearerTokenFile |-> Undefined],
            !.remoteRead =
                [url |-> "http://cortex-api." \o getTenantNamespace(tenant)
                            \o ".svc.cluster.local:8080/api/v1/read",
                 bearerTokenFile |-> Undefined]]

BearerTokenFilePath ==
    "/etc/prometheus/secrets/system-tenant-api-auth-token/system_tenant_api_auth_token"

\* The else branch of lines 94-105.
SystemBranch(call) ==
    [call EXCEPT
        !.pc = "addService",
        !.promSecrets = <<"system-tenant-api-auth-token">>,
        !.promBearerTokenFile = BearerTokenFilePath,
        !.remoteWrite.bearerTokenFile = BearerTokenFilePath,
        !.remoteRead.bearerTokenFile = BearerTokenFilePath]

\* The then branch of lines 88-93.
NonSystemBranch(call) ==
    LET selector == [matchLabels |-> [tenant |-> call.tenant.name]]
    IN  [call EXCEPT
            !.pc = "addService",
            !.ruleNamespaceSelector = selector,
            !.serviceMonitorNamespaceSelector = selector]

\* DispatchStep with the test written === instead of !==.
DispatchStep_inverted(call) ==
    IF call.tenant.type = "SYSTEM"
    THEN NonSystemBranch(call)
    ELSE SystemBranch(call)

\* DispatchStep as a three-way switch that throws on an unknown type.
DispatchStep_exhaustive(call) ==
    CASE call.tenant.type = "SYSTEM" -> SystemBranch(call)
      [] call.tenant.type = "USER" -> NonSystemBranch(call)
      [] OTHER -> [call EXCEPT !.pc = "threw"]

\* DispatchStep without the chained assignment of line 89: only
\* ruleNamespaceSelector is set.
DispatchStep_ruleSelectorOnly(call) ==
    IF call.tenant.type # "SYSTEM"
    THEN [call EXCEPT
            !.pc = "addService",
            !.ruleNamespaceSelector =
                [matchLabels |-> [tenant |-> call.tenant.name]]]
    ELSE SystemBranch(call)

\* Lines 88-105: if (tenant.type !== "SYSTEM") { ... } else { ... }
DispatchStep(call) ==
    IF call.tenant.type # "SYSTEM"
    THEN NonSystemBranch(call)
    ELSE SystemBranch(call)

\* Lines 108-137.
ServiceResource(call) ==
    K8sResource(
        [apiVersion |-> "v1",
         kind |-> "Service",
         metadata |->
            [labels |-> [prometheus |-> call.name, app |-> "prometheus"],
             name |-> "prometheus",
             namespace |-> call.namespace],
         spec |->
            [ports |-> <<[name |-> "web", port |-> 9090, targetPort |-> "web"]>>,
             selector |-> [app |-> "prometheus", prometheus |-> call.name],
             sessionAffinity |-> "ClientIP"]],
        call.kubeConfig)

\* Lines 141-171.
ServiceMonitorResource(call) ==
    K8sResource(
        [apiVersion |-> "monitoring.coreos.com/v1",
         kind |-> "ServiceMonitor",
         metadata |->
            [labels |-> [app |-> "prometheus", prometheus |-> call.name,
                         tenant |-> "system"],
             name |-> "prometheus",
             namespace |-> call.namespace],
         spec |->
            [jobLabel |-> "prometheus",
             endpoints |-> <<[interval |-> "30s", port |-> "web",
                              path |-> "/prometheus/metrics"]>>,
             selector |-> [matchLabels |-> [app |-> "prometheus"]]]],
        call.kubeConfig)

\* Line 184: DockerImages.prometheus.split(":")[1]
prometheusVersion == DockerImagesPrometheus[2]

\* RemoteWriteOf with remoteWrite hoisted to module scope: one object for
\* all invocations, which line 103 of any of them writes to.
RemoteWriteOf_shared(call) ==
    IF \E d \in DOMAIN calls : calls[d].pc # "start"
                                /\ calls[d].remoteWrite.bearerTokenFile # Undefined
    THEN [call.remoteWrite EXCEPT !.bearerTokenFile = BearerTokenFilePath]
    ELSE call.remoteWrite

\* Line 227: the invocation's own remoteWrite object.
RemoteWriteOf(call) == call.remoteWrite

\* Lines 187-285; getDomain(state) is evaluated while the literal is built.
PrometheusResource(call) ==
    K8sResource(
        [apiVersion |-> "monitoring.coreos.com/v1",
         kind |-> "Prometheus",
         metadata |->
            [labels |-> [prometheus |-> call.name],
             name |-> call.name,
             namespace |-> call.namespace],
         spec |->
            [externalUrl |-> "https://system." \o getDomain(call.state)
                                \o "/prometheus",
             routePrefix |-> "/prometheus",
             affinity |-> withPodAntiAffinityRequired([prometheus |-> call.name]),
             storage |->
                [volumeClaimTemplate |->
                    [spec |->
                        [storageClassName |-> "pd-ssd",
                         accessModes |-> <<"ReadWriteOnce">>,
                         resources |->
                            [requests |-> [storage |-> call.config.diskSize]]]]],
             alerting |->
                [alertmanagers |->
                    <<[name |-> "alertmanager",
                       pathPrefix |-> "/alertmanager",
                       namespace |-> call.namespace,
                       port |-> "web"]>>],
             remoteWrite |-> <<RemoteWriteOf(call)>>,
             remoteRead |-> <<call.remoteRead>>,
             image |-> DockerImagesPrometheus[1] \o ":" \o DockerImagesPrometheus[2],
             nodeSelector |-> ("kubernetes.io/os" :> "linux"),
             podMonitorSelector |-> EmptyObject,
             probeNamespaceSelector |-> EmptyObject,
             probeSelector |-> EmptyObject,
             replicas |-> call.config.replicas,
             shards |-> call.config.shards,
             resources |-> call.config.resources,
             secrets |-> call.promSecrets,
             ruleNamespaceSelector |-> call.ruleNamespaceSelector,
             ruleSelector |->
                [matchLabels |-> [prometheus |-> call.name,
                                  role |-> "alert-rules"]],
             securityContext |->
                [fsGroup |-> 2000, runAsNonRoot |-> TRUE, runAsUser |-> 1000],
             serviceAccountName |-> call.name,
             serviceMonitorNamespaceSelector |->
                call.serviceMonitorNamespaceSelector,
             serviceMonitorSelector |-> call.serviceMonitorSelector,
             version |-> prometheusVersion]],
        call.kubeConfig)

\* ServiceAccountResource with a literal namespace.
ServiceAccountResource_defaultNamespace(call) ==
    K8sResource(
        [apiVersion |-> "v1",
         kind |-> "ServiceAccount",
         metadata |-> [name |-> call.name, namespace |-> "default"]],
        call.kubeConfig)

\* Lines 289-299.
ServiceAccountResource(call) ==
    K8sResource(
        [apiVersion |-> "v1",
         kind |-> "ServiceAccount",
         metadata |-> [name |-> call.name, namespace |-> call.namespace]],
        call.kubeConfig)

\* Lines 303-320.
RoleResource(call) ==
    K8sResource(
        [apiVersion |-> "rbac.authorization.k8s.io/v1",
         kind |-> "Role",
         metadata |-> [name |-> call.name, namespace |-> call.namespace],
         rules |->
            <<[apiGroups |-> <<"">>,
               resources |-> <<"services", "endpoints", "pods">>,
               verbs |-> <<"get", "list", "watch">>]>>],
        call.kubeConfig)

\* RoleBindingResource with the subject named like the Service.
RoleBindingResource_fixedSubject(call) ==
    K8sResource(
        [apiVersion |-> "rbac.authorization.k8s.io/v1",
         kind |-> "RoleBinding",
         metadata |-> [name |-> call.name, namespace |-> call.namespace],
         roleRef |->
            [apiGroup |-> "rbac.authorization.k8s.io",
             kind |-> "Role",
             name |-> call.name],
         subjects |->
            <<[kind |-> "ServiceAccount",
               name |-> "prometheus",
               namespace |-> call.namespace]>>],
        call.kubeConfig)

\* Lines 323-345.
RoleBindingResource(call) ==
    K8sResource(
        [apiVersion |-> "rbac.authorization.k8s.io/v1",
         kind |-> "RoleBinding",
         metadata |-> [name |-> call.name, namespace |-> call.namespace],
         roleRef |->
            [apiGroup |-> "rbac.authorization.k8s.io",
             kind |-> "Role",
             name |-> call.name],
         subjects |->
            <<[kind |-> "ServiceAccount",
               name |-> call.name,
               namespace |-> call.namespace]>>],
        call.kubeConfig)

\* Throw inside a try/catch that returns the collection built so far.
Throw_swallowed(call) ==
    [call EXCEPT !.pc = "returned", !.returned = call.collection]

\* An exception raised inside the function: nothing catches it, the
\* invocation ends without a return value.
Throw(call) == [call EXCEPT !.pc = "threw"]

\* Lines 107-138: collection.add(new Service(...))
AddServiceStep(call) ==
    [call EXCEPT !.pc = "addServiceMonitor",
                 !.collection = add(@, ServiceResource(call))]

\* Lines 140-172: collection.add(new V1ServicemonitorResource(...))
AddServiceMonitorStep(call) ==
    [call EXCEPT !.pc = "addPrometheus",
                 !.collection = add(@, ServiceMonitorResource(call))]

\* Lines 186-286: collection.add(new V1PrometheusResource(...))
AddPrometheusStep(call) ==
    IF getDomainThrows(call.state)
    THEN Throw(call)
    ELSE [call EXCEPT !.pc = "addServiceAccount",
                      !.collection = add(@, PrometheusResource(call))]

\* Lines 288-300: collection.add(new ServiceAccount(...))
AddServiceAccountStep(call) ==
    [call EXCEPT !.pc = "addRole",
                 !.collection = add(@, ServiceAccountResource(call))]

\* AddRoleStep without the collection.add call.
AddRoleStep_skipped(call) == [call EXCEPT !.pc = "addRoleBinding"]

\* Lines 302-321: collection.add(new Role(...))
AddRoleStep(call) ==
    [call EXCEPT !.pc = "addRoleBinding",
                 !.collection = add(@, RoleResource(call))]

\* Lines 322-346: collection.add(new RoleBinding(...))
AddRoleBindingStep(call) ==
    [call EXCEPT !.pc = "return",
                 !.collection = add(@, RoleBindingResource(call))]

\* Line 348: return collection
ReturnStep(call) ==
    [call EXCEPT !.pc = "returned", !.returned = call.collection]

Terminal(call) == call.pc \in {"returned", "threw"}

\* The next statement of an invocation.
Advance(call) ==
    CASE call.pc = "start" -> BeginStep(call)
      [] call.pc = "dispatch" -> DispatchStep(call)
      [] call.pc = "addService" -> AddServiceStep(call)
      [] call.pc = "addServiceMonitor" -> AddServiceMonitorStep(call)
      [] call.pc = "addPrometheus" -> AddPrometheusStep(call)
      [] call.pc = "addServiceAccount" -> AddServiceAccountStep(call)
      [] call.pc = "addRole" -> AddRoleStep(call)
      [] call.pc = "addRoleBinding" -> AddRoleBindingStep(call)
      [] call.pc = "return" -> ReturnStep(call)
      [] OTHER -> call

RECURSIVE RunAlone(_)
\* PrometheusResources(state, kubeConfig, tenant) executed from its first
\* statement to its end with nothing else running.
RunAlone(call) ==
    IF Terminal(call) THEN call ELSE RunAlone(Advance(call))

---------------------------------------------------------------------------
(* Actions of the synthesis: one statement of one invocation *)

\* Invocation c executes lines 44-86.
Begin(c) ==
    /\ calls[c].pc = "start"
    /\ calls' = [calls EXCEPT ![c] = BeginStep(calls[c])]
    /\ UNCHANGED formVars

\* Invocation c executes lines 88-105.
Dispatch(c) ==
    /\ calls[c].pc = "dispatch"
    /\ calls' = [calls EXCEPT ![c] = DispatchStep(calls[c])]
    /\ UNCHANGED formVars

\* Invocation c executes lines 107-138.
AddService(c) ==
    /\ calls[c].pc = "addService"
    /\ calls' = [calls EXCEPT ![c] = AddServiceStep(calls[c])]
    /\ UNCHANGED formVars

\* Invocation c executes lines 140-172.
AddServiceMonitor(c) ==
    /\ calls[c].pc = "addServiceMonitor"
    /\ calls' = [calls EXCEPT ![c] = AddServiceMonitorStep(calls[c])]
    /\ UNCHANGED formVars

\* Invocation c executes lines 184-286.
AddPrometheus(c) ==
    /\ calls[c].pc = "addPrometheus"
    /\ calls' = [calls EXCEPT ![c] = AddPrometheusStep(calls[c])]
    /\ UNCHANGED formVars

\* Invocation c executes lines 288-300.
AddServiceAccount(c) ==
    /\ calls[c].pc = "addServiceAccount"
    /\ calls' = [calls EXCEPT ![c] = AddServiceAccountStep(calls[c])]
    /\ UNCHANGED formVars

\* Invocation c executes lines 302-321.
AddRole(c) ==
    /\ calls[c].pc = "addRole"
    /\ calls' = [calls EXCEPT ![c] = AddRoleStep(calls[c])]
    /\ UNCHANGED formVars

\* Invocation c executes lines 322-346.
AddRoleBinding(c) ==
    /\ calls[c].pc = "addRoleBinding"
    /\ calls' = [calls EXCEPT ![c] = AddRoleBindingStep(calls[c])]
    /\ UNCHANGED formVars

\* Invocation c executes line 348.
Return(c) ==
    /\ calls[c].pc = "return"
    /\ calls' = [calls EXCEPT ![c] = ReturnStep(calls[c])]
    /\ UNCHANGED formVars

---------------------------------------------------------------------------
(* SyntheticMonitoringForm *)

\* Values the user can give the "name" field.
NameInputs == {"", " ", "a", "my-check"}

\* SchemaValid without required().
SchemaValid_optional(values) == TRUE

\* Lines 34-36: yup.object().shape({name: yup.string().required()}).
\* required() rejects undefined and the empty string; it does not trim.
SchemaValid(values) == values.name # Undefined /\ values.name # ""

\* Line 99: disabled={!isValid}
Disabled == ~isValid

\* Lines 58-65: onSubmit(data) calls handleCreate once.
onSubmit(data) ==
    Append(handleCreateCalls,
           <<[name |-> data.name], [createGrafanaFolder |-> FALSE]>>)

\* The form as first rendered: defaultValues = {name: ""} (lines 38-40),
\* formState.isValid false, handleCreate not called.
FormInit ==
    /\ nameInput = ""
    /\ isValid = FALSE
    /\ handleCreateCalls = <<>>
    /\ submitted = <<>>

\* The user edits the field.  With mode "onChange" (lines 47-52) the resolver
\* validates the new values within the same event, before any other user
\* event is handled, and formState.isValid (lines 54-56) takes its verdict.
Change(v) ==
    /\ v # nameInput
    /\ nameInput' = v
    /\ isValid' = SchemaValid([name |-> v])
    /\ UNCHANGED <<calls, handleCreateCalls, submitted>>

\* The user activates the Install button (lines 94-102), which a disabled
\* button does not allow.  The form's onSubmit is handleSubmit(onSubmit)
\* (line 84): it validates the values with the resolver and calls onSubmit
\* only when they are valid.
Submit ==
    /\ ~Disabled
    /\ Len(submitted) < MaxSubmits
    /\ submitted' = Append(submitted, nameInput)
    /\ handleCreateCalls' =
            IF SchemaValid([name |-> nameInput])
            THEN onSubmit([name |-> nameInput])
            ELSE handleCreateCalls
    /\ UNCHANGED <<calls, nameInput, isValid>>

FormNext ==
    \/ \E v \in NameInputs : Change(v)
    \/ Submit

\* The form alone, with no invocation of PrometheusResources in progress.
FormSpecInit == FormInit /\ calls = EmptyObject

FormSpec == FormSpecInit /\ [][FormNext]_vars

---------------------------------------------------------------------------
(* The synthesis: invocations of PrometheusResources *)

\* Every invocation is about to execute its first statement, with any
\* cluster state, handle and tenant as its arguments.
Init ==
    /\ calls \in [Calls -> {NewCall(s, k, t) :
                              s \in States, k \in KubeConfigs, t \in Tenants}]
    /\ FormInit

Next ==
    \E c \in Calls :
        \/ Begin(c)
        \/ Dispatch(c)
        \/ AddService(c)
        \/ AddServiceMonitor(c)
        \/ AddPrometheus(c)
        \/ AddServiceAccount(c)
        \/ AddRole(c)
        \/ AddRoleBinding(c)
        \/ Return(c)

Spec == Init /\ [][Next]_vars

---------------------------------------------------------------------------
(* Properties *)

Returned(c) == calls[c].pc = "returned"

\* The i-th resource of the collection invocation c returned.
Emitted(c, i) == calls[c].returned[i].resource

\* The Prometheus resource of the collection invocation c returned.
Workload(c) == Emitted(c, 3).spec

TenantLabelMatch(c) == [matchLabels |-> [tenant |-> calls[c].tenant.name]]

SystemCredentials(c) ==
    /\ Len(Workload(c).remoteWrite) = 1
    /\ Len(Workload(c).remoteRead) = 1
    /\ Workload(c).remoteWrite[1].bearerTokenFile = BearerTokenFilePath
    /\ Workload(c).remoteRead[1].bearerTokenFile = BearerTokenFilePath
    /\ Workload(c).secrets = <<"system-tenant-api-auth-token">>

StandardSettings(c) ==
    /\ Len(Workload(c).remoteWrite) = 1
    /\ Len(Workload(c).remoteRead) = 1
    /\ Workload(c).remoteWrite[1].bearerTokenFile = Undefined
    /\ Workload(c).remoteRead[1].bearerTokenFile = Undefined
    /\ Workload(c).secrets = <<>>
    /\ Workload(c).ruleNamespaceSelector = TenantLabelMatch(c)
    /\ Workload(c).serviceMonitorNamespaceSelector = TenantLabelMatch(c)
    /\ Workload(c).serviceMonitorSelector = TenantLabelMatch(c)

\* C1, as claimed: for a SYSTEM tenant the returned Prometheus carries the
\* bearer-token file on remoteWrite and remoteRead, has the one fixed secret,
\* and its ruleNamespaceSelector, serviceMonitorNamespaceSelector and
\* serviceMonitorSelector are all the empty object.
C1_SystemAllSelectorsEmpty ==
    \A c \in DOMAIN calls :
        (Returned(c) /\ calls[c].tenant.type = "SYSTEM") =>
            /\ SystemCredentials(c)
            /\ Workload(c).ruleNamespaceSelector = EmptyObject
            /\ Workload(c).serviceMonitorNamespaceSelector = EmptyObject
            /\ Workload(c).serviceMonitorSelector = EmptyObject

\* C1, amended: for a SYSTEM tenant the returned Prometheus carries the
\* bearer-token file on remoteWrite and remoteRead, has the one fixed secret,
\* and its two namespace selectors are the empty object, while its
\* serviceMonitorSelector is the label match {tenant: tenant.name}.
C1_SystemTenant ==
    \A c \in DOMAIN calls :
        (Returned(c) /\ calls[c].tenant.type = "SYSTEM") =>
            /\ SystemCredentials(c)
            /\ Workload(c).ruleNamespaceSelector = EmptyObject
            /\ Workload(c).serviceMonitorNamespaceSelector = EmptyObject
            /\ Workload(c).serviceMonitorSelector = TenantLabelMatch(c)

C1_Witness ==
    \E c \in DOMAIN calls :
        /\ Returned(c)
        /\ calls[c].tenant = [name |-> "system", type |-> "SYSTEM"]
        /\ Workload(c).remoteRead[1].bearerTokenFile = BearerTokenFilePath
        /\ Workload(c).ruleNamespaceSelector = EmptyObject
        /\ Workload(c).serviceMonitorSelector =
                [matchLabels |-> [tenant |-> "system"]]

\* C2: for a standard (USER) tenant the returned Prometheus has no
\* bearer-token file on remoteWrite or remoteRead, an empty secrets list, and
\* all three discovery selectors equal to {tenant: tenant.name}.
C2_StandardTenant ==
    \A c \in DOMAIN calls :
        (Returned(c) /\ calls[c].tenant.type = "USER") => StandardSettings(c)

C2_Witness ==
    \E c \in DOMAIN calls :
        /\ Returned(c)
        /\ calls[c].tenant = [name |-> "acme", type |-> "USER"]
        /\ Workload(c).remoteWrite[1].bearerTokenFile = Undefined
        /\ Workload(c).secrets = <<>>
        /\ Workload(c).serviceMonitorNamespaceSelector =
                [matchLabels |-> [tenant |-> "acme"]]

C4_Shards ==
    \A c \in DOMAIN calls :
        LET n == calls[c].state.nodeCount
            expected == IF n <= 6 THEN 2 ELSE 3
        IN  /\ calls[c].pc # "start" =>
                /\ calls[c].config.shards = expected
                /\ \E i \in 1..Len(ShardTable) :
                        /\ Satisfies(n, ShardTable[i])
                        /\ \A j \in 1..(i - 1) : ~Satisfies(n, ShardTable[j])
                        /\ calls[c].config.shards = ShardTable[i].choose
            /\ Returned(c) => Workload(c).shards = expected

C4_Witness ==
    \E c, d \in DOMAIN calls :
        /\ Returned(c) /\ Returned(d)
        /\ calls[c].state.nodeCount = 6 /\ Workload(c).shards = 2
        /\ calls[d].state.nodeCount = 7 /\ Workload(d).shards = 3
        /\ calls[c].tenant # calls[d].tenant

\* C5, as claimed: all six returned resources have the same namespace and
\* have the Prometheus name of the tenant as metadata.name.
C5_AllNamedAlike ==
    \A c \in DOMAIN calls :
        Returned(c) =>
            \A i \in 1..Len(calls[c].returned) :
                /\ Emitted(c, i).metadata.namespace = calls[c].namespace
                /\ Emitted(c, i).metadata.name = calls[c].name

\* C5, amended: all six returned resources have the same namespace; the
\* Prometheus, ServiceAccount, Role and RoleBinding have the Prometheus name
\* of the tenant as metadata.name, while the Service and the ServiceMonitor
\* are named "prometheus" and carry that name in their label "prometheus".
C5_Naming ==
    \A c \in DOMAIN calls :
        Returned(c) =>
            /\ Len(calls[c].returned) = 6
            /\ \A i \in 1..6 :
                    Emitted(c, i).metadata.namespace
                        = Emitted(c, 1).metadata.namespace
            /\ \A i \in 3..6 :
                    Emitted(c, i).metadata.name = Emitted(c, 3).metadata.name
            /\ \A i \in 1..2 :
                    /\ Emitted(c, i).metadata.name = "prometheus"
                    /\ Emitted(c, i).metadata.labels.prometheus
                            = Emitted(c, 3).metadata.name

C5_Witness ==
    \E c \in DOMAIN calls :
        /\ Returned(c)
        /\ Emitted(c, 1).metadata.name = "prometheus"
        /\ Emitted(c, 3).metadata.name = "acme-prometheus"
        /\ Emitted(c, 6).metadata.namespace = "acme-tenant"

\* C6: in a returned collection the RoleBinding's roleRef names the Role of
\* the collection and its only subject is the ServiceAccount of the
\* collection, by name and namespace.
C6_ReferentialIntegrity ==
    \A c \in DOMAIN calls :
        Returned(c) =>
            LET sa == Emitted(c, 4)
                role == Emitted(c, 5)
                binding == Emitted(c, 6)
            IN  /\ sa.kind = "ServiceAccount"
                /\ role.kind = "Role"
                /\ binding.kind = "RoleBinding"
                /\ binding.roleRef.kind = role.kind
                /\ binding.roleRef.name = role.metadata.name
                /\ binding.metadata.namespace = role.metadata.namespace
                /\ Len(binding.subjects) = 1
                /\ binding.subjects[1].kind = sa.kind
                /\ binding.subjects[1].name = sa.metadata.name
                /\ binding.subjects[1].namespace = sa.metadata.namespace

C6_Witness ==
    \E c \in DOMAIN calls :
        /\ Returned(c)
        /\ Emitted(c, 6).roleRef.name = "acme-prometheus"
        /\ Emitted(c, 6).subjects[1].name = "acme-prometheus"
        /\ Emitted(c, 4).metadata.name = "acme-prometheus"

\* C7: an invocation hands its caller either the complete collection of six
\* resources or nothing: until it returns there is no return value, and when
\* the cluster domain is undefined it ends by throwing, its two resources
\* added so far never returned.
C7_NoPartialBundle ==
    \A c \in DOMAIN calls :
        /\ Returned(c) => Len(calls[c].returned) = 6
        /\ ~Returned(c) => calls[c].returned = NoValue
        /\ (Terminal(calls[c]) /\ calls[c].state.domain = Undefined) =>
                calls[c].pc = "threw"
        /\ calls[c].pc = "threw" => calls[c].state.domain = Undefined

C7_Witness ==
    \E c \in DOMAIN calls :
        /\ calls[c].pc = "threw"
        /\ Len(calls[c].collection) = 2
        /\ calls[c].returned = NoValue

\* C8: a returned collection holds exactly Service, ServiceMonitor,
\* Prometheus, ServiceAccount, Role, RoleBinding in this order, with one
\* Prometheus, whose shards, secrets, remote endpoints and selectors are the
\* ones the same invocation computed.
C8_SixInOrder ==
    \A c \in DOMAIN calls :
        Returned(c) =>
            /\ [i \in 1..Len(calls[c].returned) |-> Emitted(c, i).kind]
                    = <<"Service", "ServiceMonitor", "Prometheus",
                        "ServiceAccount", "Role", "RoleBinding">>
            /\ Workload(c).shards = calls[c].config.shards
            /\ Workload(c).secrets = calls[c].promSecrets
            /\ Workload(c).remoteWrite = <<calls[c].remoteWrite>>
            /\ Workload(c).remoteRead = <<calls[c].remoteRead>>
            /\ Workload(c).remoteWrite[1].bearerTokenFile
                    = calls[c].promBearerTokenFile
            /\ Workload(c).ruleNamespaceSelector
                    = calls[c].ruleNamespaceSelector
            /\ Workload(c).serviceMonitorNamespaceSelector
                    = calls[c].serviceMonitorNamespaceSelector
            /\ Workload(c).serviceMonitorSelector
                    = calls[c].serviceMonitorSelector

C8_Witness ==
    \E c \in DOMAIN calls :
        /\ Returned(c)
        /\ Len(calls[c].returned) = 6
        /\ Emitted(c, 3).kind = "Prometheus"
        /\ Workload(c).shards = 3
        /\ Workload(c).secrets = <<"system-tenant-api-auth-token">>

\* C9: the Install button is disabled whenever the name field is empty, so
\* handleCreate is never called with an empty name; every submission of a
\* name n calls handleCreate exactly once, with ({name: n},
\* {createGrafanaFolder: false}).
C9_Form ==
    /\ nameInput = "" => Disabled
    /\ \A i \in 1..Len(submitted) : submitted[i] # ""
    /\ handleCreateCalls =
            [i \in 1..Len(submitted) |->
                <<[name |-> submitted[i]], [createGrafanaFolder |-> FALSE]>>]

C9_Witness ==
    /\ handleCreateCalls =
            <<<<[name |-> "my-check"], [createGrafanaFolder |-> FALSE]>>>>
    /\ nameInput = ""
    /\ Disabled

SameInputs(c, d) ==
    /\ calls[c].state = calls[d].state
    /\ calls[c].kubeConfig = calls[d].kubeConfig
    /\ calls[c].tenant = calls[d].tenant

====
